---- MODULE Spec2Model ----
(***************************************************************************)
(* Incremental image-indexing pipeline of photo-similarity-search:         *)
(* file-list cache, metadata rows in SQLite, embeddings, Chroma sync.      *)
(* Strings are sequences of one-character strings, so that replace(),      *)
(* basename(), lower() and slicing are computed character by character.    *)
(***************************************************************************)
EXTENDS Naturals, Integers, Sequences, FiniteSets, TLC

VARIABLES
    script,      \* which script's code is running
    dir,         \* the files present under the image directory (set of paths)
    cacheFile,   \* the file-list cache file: [exists, bytes]
    hc,          \* the frame of hydrate_cache: [pc, cached_files]
    call,        \* what hydrate_cache saw when it was called, and whether it walked
    calls,       \* number of ended hydrate_cache calls / restarts of a sync script
    pc,          \* position of main()
    run,         \* number of the current run of main()
    images,      \* the rows of the images table, in rowid order
    collection,  \* the ids held by the Chroma collection
    tasks,       \* the futures submitted to the thread pool in the current phase
    photos,      \* main's list of photo dicts loaded from the table
    idx,         \* index of the next photo in main's sequential loops
    items,       \* the sync script's list of the ids found in the collection
    faults,      \* number of environment failures injected so far
    encCalls,    \* encoder / upload calls of the current run: set of photo indexes
    addCalls,    \* every collection.add call: [id, present]
    snap,        \* what each completed run left behind
    readable,    \* whether the root image directory can be listed
    active,      \* the photos whose encoder call is in progress
    unfinished,  \* calls handed out and not yet ended: [image, embed]
    sig,         \* the signal received: [delivered, queued tasks at delivery]
    connection,  \* the module-level SQLite connection: [st, flushed by a commit]
    modified,    \* the files rewritten on disk since the pipeline first ran
    txn,         \* combined_v2.py: [commit_counter, inserts not yet committed]
    web,         \* start_web.py: the index it serves and the last page rendered
    env          \* the environment of the process: [IMAGE_DIRECTORY]

cacheVars == <<cacheFile, hc, call, calls>>
storeVars == <<images, collection>>
mainVars  == <<tasks, photos, idx, items>>
histVars  == <<faults, encCalls, addCalls, snap>>
pipeVars  == <<images, collection, tasks, photos, idx, items, faults, encCalls,
               addCalls, snap>>

sysVars   == <<readable, modified, txn, web, env, active, unfinished, sig,
               connection>>

vars == <<script, dir, cacheFile, hc, call, calls, pc, run,
          images, collection, tasks, photos, idx, items, faults, encCalls,
          addCalls, snap, readable, active, unfinished, sig, connection,
          modified, txn, web, env>>

-----------------------------------------------------------------------------
(* Bounds *)

MaxCalls == 3

MaxRuns == 2

MaxFaults == 1

MaxFiles == 2

\* the longest file list combined_v2.py is run on
MaxListed == 102

\* the largest coordinate of an embedding held by the index start_web.py serves
MaxCoord == 2

\* the largest number of rows generate_embeddings_chroma.py loads: above one
\* batch of 20
MaxPhotos == 21

-----------------------------------------------------------------------------
(* Configuration and the files of the modelled directory *)

\* IMAGE_DIRECTORY as the runs of the pipeline are given it, and the same
\* directory written with a trailing separator
Root      == <<"i", "m", "g">>
RootSlash == <<"i", "m", "g", "/">>

\* SOURCE_IMAGE_DIRECTORY = os.getenv('IMAGE_DIRECTORY', 'images')
SOURCE_IMAGE_DIRECTORY == env.IMAGE_DIRECTORY

PathA    == <<"i", "m", "g", "/", "a", ".", "j", "p", "g">>
PathSubA == <<"i", "m", "g", "/", "s", "/", "a", ".", "j", "p", "g">>
PathTxt  == <<"i", "m", "g", "/", "n", ".", "t", "x", "t">>
PathB    == <<"i", "m", "g", "/", "b", ".", "J", "P", "G">>

Universe == {PathA, PathSubA, PathTxt, PathB}

\* a file whose name repeats the name of the root directory
PathImg  == <<"i", "m", "g", "/", "i", "m", "g", ".", "j", "p", "g">>

\* the directory contents considered: at most MaxFiles files
Dirs == {d \in SUBSET Universe : Cardinality(d) <= MaxFiles}

Scripts == {"generate_embeddings", "combined_v5", "combined_v3"}

-----------------------------------------------------------------------------
(* msgpack: an array is a header carrying the element count, followed by   *)
(* the elements.  A file or blob holding fewer elements than its header    *)
(* announces (or no header at all) does not decode.                        *)

Packb(list) ==
    <<[arr |-> Len(list)]>> \o [k \in 1..Len(list) |-> [elt |-> list[k]]]

Decodable(bytes) ==
    /\ Len(bytes) >= 1
    /\ DOMAIN bytes[1] = {"arr"}
    /\ bytes[1].arr = Len(bytes) - 1

\* a decoder that stops one element short of the array
UnpackbShort(bytes) == [k \in 1..(Len(bytes) - 2) |-> bytes[k + 1].elt]

Unpackb(bytes) == [k \in 1..(Len(bytes) - 1) |-> bytes[k + 1].elt]

NoFile == [exists |-> FALSE, bytes |-> <<>>]

-----------------------------------------------------------------------------
(* file_generator: os.walk yields every file once, in no particular order  *)

file_generator(d) ==
    {order \in [1..Cardinality(d) -> d] :
        \A a, b \in 1..Cardinality(d) : order[a] = order[b] => a = b}

-----------------------------------------------------------------------------
(* hydrate_cache, statement by statement *)

IdleFrame == [pc |-> "idle", cached_files |-> <<>>]

\* a slip in the emptiness test of line 141: a one-entry cache counts as empty
CacheIsEmptyOffByOne(cached_files) == Len(cached_files) <= 1

CacheIsEmpty(cached_files) == Len(cached_files) = 0

HC_Call ==
    /\ pc = "hydrate"
    /\ hc.pc = "idle"
    /\ hc' = [hc EXCEPT !.pc = "exists"]
    /\ call' = [dirAtCall |-> dir, cacheAtCall |-> cacheFile, walked |-> FALSE]
    /\ UNCHANGED <<sysVars, script, dir, cacheFile, calls, pc, run, pipeVars>>

HC_Exists ==
    /\ hc.pc = "exists"
    /\ hc' = [hc EXCEPT !.pc = IF cacheFile.exists THEN "load" ELSE "walk"]
    /\ UNCHANGED <<sysVars, script, dir, cacheFile, call, calls, pc, run, pipeVars>>

\* msgpack.load: a complete array decodes; anything else raises.  The error
\* raised for incomplete input is ValueError in msgpack >= 1.0 and a subclass
\* of UnpackException before; only generate_embeddings.py has an except
\* clause, and it names UnpackException and IOError.
HC_Load ==
    /\ hc.pc = "load"
    /\ IF Decodable(cacheFile.bytes)
       THEN hc' = [pc |-> IF script = "combined_v3" THEN "return" ELSE "len",
                   cached_files |-> Unpackb(cacheFile.bytes)]
       ELSE \E caught \in BOOLEAN :
                hc' = [hc EXCEPT !.pc =
                          IF caught /\ script = "generate_embeddings"
                          THEN "walk" ELSE "raised"]
    /\ UNCHANGED <<sysVars, script, dir, cacheFile, call, calls, pc, run, pipeVars>>

HC_Len ==
    /\ hc.pc = "len"
    /\ hc' = [hc EXCEPT !.pc = IF CacheIsEmpty(hc.cached_files)
                                THEN "walk" ELSE "return"]
    /\ UNCHANGED <<sysVars, script, dir, cacheFile, call, calls, pc, run, pipeVars>>

\* list(file_generator(directory)); combined_v5.py then prints
\* cached_files[0], which raises IndexError on an empty list.  os.walk is
\* called without onerror: a root that cannot be listed yields nothing.
HC_Walk ==
    /\ hc.pc = "walk"
    /\ \E order \in file_generator(IF readable THEN dir ELSE {}) :
          hc' = [pc |-> IF script = "combined_v5" /\ Len(order) = 0
                        THEN "raised" ELSE "open",
                 cached_files |-> order]
    /\ call' = [call EXCEPT !.walked = TRUE]
    /\ UNCHANGED <<sysVars, script, dir, cacheFile, calls, pc, run, pipeVars>>

\* open(cache_file_path, 'wb') creates or truncates the file in place
HC_Open ==
    /\ hc.pc = "open"
    /\ cacheFile' = [exists |-> TRUE, bytes |-> <<>>]
    /\ hc' = [hc EXCEPT !.pc = "write"]
    /\ UNCHANGED <<sysVars, script, dir, call, calls, pc, run, pipeVars>>

\* msgpack.dump: the packed bytes reach the file piece by piece
HC_Write ==
    /\ hc.pc = "write"
    /\ Len(cacheFile.bytes) < Len(Packb(hc.cached_files))
    /\ cacheFile' = [cacheFile EXCEPT !.bytes =
                        Append(@, Packb(hc.cached_files)[Len(@) + 1])]
    /\ UNCHANGED <<sysVars, script, dir, hc, call, calls, pc, run, pipeVars>>

HC_Close ==
    /\ hc.pc = "write"
    /\ cacheFile.bytes = Packb(hc.cached_files)
    /\ hc' = [hc EXCEPT !.pc = "return"]
    /\ UNCHANGED <<sysVars, script, dir, cacheFile, call, calls, pc, run, pipeVars>>

HC_Return ==
    /\ hc.pc = "return"
    /\ hc' = [hc EXCEPT !.pc = "returned"]
    /\ UNCHANGED <<sysVars, script, dir, cacheFile, call, calls, pc, run, pipeVars>>

-----------------------------------------------------------------------------
(* The cache alone: repeated calls of hydrate_cache by successive          *)
(* processes, interrupts in the middle of a call, and a directory that     *)
(* changes between calls.                                                  *)

\* the process is killed (SIGKILL, power loss) inside hydrate_cache
Crash ==
    /\ hc.pc \notin {"idle", "returned", "raised"}
    /\ calls < MaxCalls
    /\ calls' = calls + 1
    /\ hc' = IdleFrame
    /\ UNCHANGED <<sysVars, script, dir, cacheFile, call, pc, run, pipeVars>>

\* the call has ended; a later process calls hydrate_cache again
CallAgain ==
    /\ hc.pc \in {"returned", "raised"}
    /\ calls < MaxCalls
    /\ calls' = calls + 1
    /\ hc' = IdleFrame
    /\ UNCHANGED <<sysVars, script, dir, cacheFile, call, pc, run, pipeVars>>

AddFile ==
    /\ hc.pc = "idle"
    /\ \E p \in Universe \ dir : dir \cup {p} \in Dirs /\ dir' = dir \cup {p}
    /\ UNCHANGED <<sysVars, script, cacheFile, hc, call, calls, pc, run, pipeVars>>

RemoveFile ==
    /\ hc.pc = "idle"
    /\ \E p \in dir : dir' = dir \ {p}
    /\ UNCHANGED <<sysVars, script, cacheFile, hc, call, calls, pc, run, pipeVars>>

\* between two runs a file is rewritten in place: new content, new mtime
TouchFile ==
    /\ pc \in {"done", "aborted"}
    /\ \E p \in dir \ modified : modified' = modified \cup {p}
    /\ UNCHANGED <<readable, txn, web, env, active, unfinished, sig, connection, script,
                   dir, cacheVars, pc, run, pipeVars>>

\* start_web.py has served nothing
NoPage == [pc |-> "idle", index |-> <<>>, filename |-> "", results |-> <<>>,
           images |-> <<>>]

\* nothing has run yet: no call of hydrate_cache, an empty table, an empty
\* collection
\* the state in which a process of the pipeline first starts
FreshRun ==
    /\ hc = IdleFrame
    /\ call = [dirAtCall |-> {}, cacheAtCall |-> NoFile, walked |-> FALSE]
    /\ calls = 0
    /\ pc = "hydrate"
    /\ run = 1
    /\ images = <<>>
    /\ collection = {}
    /\ tasks = <<>>
    /\ photos = <<>>
    /\ idx = 1
    /\ items = {}
    /\ faults = 0
    /\ encCalls = {}
    /\ addCalls = {}
    /\ snap = <<>>
    /\ active = {}
    /\ unfinished = [image |-> 0, embed |-> 0]
    /\ sig = [delivered |-> FALSE, queued |-> {}]
    /\ connection = [st |-> "open", flushed |-> FALSE]
    /\ modified = {}
    /\ txn = [commit_counter |-> 0, uncommitted |-> 0]
    /\ web = NoPage

Fresh ==
    /\ FreshRun
    /\ env = [IMAGE_DIRECTORY |-> Root]

InitCache ==
    /\ script \in {"generate_embeddings", "combined_v5"}
    /\ dir \in Dirs
    /\ cacheFile = NoFile
    /\ readable = TRUE
    /\ Fresh

NextCache ==
    \/ HC_Call \/ HC_Exists \/ HC_Load \/ HC_Len \/ HC_Walk
    \/ HC_Open \/ HC_Write \/ HC_Close \/ HC_Return
    \/ Crash \/ CallAgain \/ AddFile \/ RemoveFile

SpecCache == InitCache /\ [][NextCache]_vars

-----------------------------------------------------------------------------
(* Claims about the file-list cache (checked under SpecCache) *)

CallEnded == hc.pc \in {"returned", "raised"}

CacheWasMissingOrEmpty ==
    \/ ~call.cacheAtCall.exists
    \/ /\ Decodable(call.cacheAtCall.bytes)
       /\ Unpackb(call.cacheAtCall.bytes) = <<>>

CacheWasNonEmpty ==
    /\ call.cacheAtCall.exists
    /\ Decodable(call.cacheAtCall.bytes)
    /\ Unpackb(call.cacheAtCall.bytes) # <<>>

\* C8: called with a missing cache file or one holding an empty list,
\* hydrate_cache returns a list with as many entries as there are files under
\* the directory at call time, for every directory content (also none).
C8_RegenerationLaw ==
    (CallEnded /\ CacheWasMissingOrEmpty) =>
        /\ hc.pc = "returned"
        /\ Len(hc.cached_files) = Cardinality(call.dirAtCall)

\* C9: called with a cache file that decodes to a non-empty list,
\* hydrate_cache never walks the directory, never touches the cache file, and
\* returns exactly the cached list, whatever the directory holds by now.
C9_NonEmptyCacheTrusted ==
    (hc.pc # "idle" /\ CacheWasNonEmpty) =>
        /\ ~call.walked
        /\ cacheFile = call.cacheAtCall
        /\ hc.pc # "raised"
        /\ hc.pc = "returned" =>
               hc.cached_files = Unpackb(call.cacheAtCall.bytes)

\* a call returned a cached list that no longer matches the directory: one
\* cached file is gone and one file of the directory is not in the cache
C9_Witness ==
    /\ hc.pc = "returned"
    /\ CacheWasNonEmpty
    /\ \E k \in 1..Len(hc.cached_files) : hc.cached_files[k] \notin call.dirAtCall
    /\ \E p \in call.dirAtCall :
          \A k \in 1..Len(hc.cached_files) : hc.cached_files[k] # p

\* C10: at every moment the cache path is absent or holds a complete list;
\* it never holds a truncated or partially written one.
C10_AtomicCacheWrite ==
    cacheFile.exists => Decodable(cacheFile.bytes)

\* the cache file found by the call does not decode (a write was cut short)
CacheWasCorrupt ==
    /\ call.cacheAtCall.exists
    /\ ~Decodable(call.cacheAtCall.bytes)

\* C11: called with an existing cache file that does not decode to a list,
\* hydrate_cache does not raise: it walks the directory and returns the fresh
\* list of the files found there.
C11_CorruptionRecovered ==
    (CallEnded /\ CacheWasCorrupt) =>
        /\ hc.pc = "returned"
        /\ call.walked
        /\ {hc.cached_files[k] : k \in 1..Len(hc.cached_files)} = call.dirAtCall

-----------------------------------------------------------------------------
(* Python string and truthiness primitives *)

\* s[1:]
Slice1(s) == IF Len(s) = 0 THEN <<>> ELSE Tail(s)

StartsWith(s, pre) == Len(s) >= Len(pre) /\ SubSeq(s, 1, Len(pre)) = pre

EndsWith(s, suf) ==
    Len(s) >= Len(suf) /\ SubSeq(s, Len(s) - Len(suf) + 1, Len(s)) = suf

\* s.replace(old, ""): every non-overlapping occurrence, left to right
RECURSIVE Remove(_, _)
Remove(s, old) ==
    IF Len(old) = 0 \/ Len(s) < Len(old) THEN s
    ELSE IF StartsWith(s, old)
         THEN Remove(SubSeq(s, Len(old) + 1, Len(s)), old)
         ELSE <<s[1]>> \o Remove(Tail(s), old)

LowerChar(c) ==
    CASE c = "J" -> "j" [] c = "P" -> "p" [] c = "G" -> "g"
      [] c = "A" -> "a" [] c = "B" -> "b" [] OTHER -> c

Lower(s) == [k \in 1..Len(s) |-> LowerChar(s[k])]

DotJpg == <<".", "j", "p", "g">>

\* os.path.basename: what follows the last separator
Basename(path) ==
    LET seps == {k \in 1..Len(path) : path[k] = "/"}
        last == IF seps = {} THEN 0 ELSE CHOOSE k \in seps : \A j \in seps : j <= k
    IN  SubSeq(path, last + 1, Len(path))

\* os.path.join(a, b)
Join(a, b) ==
    IF StartsWith(b, <<"/">>) THEN b
    ELSE IF Len(a) = 0 \/ EndsWith(a, <<"/">>) THEN a \o b
    ELSE a \o <<"/">> \o b

ListTruthy(list) == Len(list) > 0

DictTruthy(d) == DOMAIN d # {}

\* the embeddings column: NULL (None) or a BLOB (bytes)
Null == [isnull |-> TRUE, blob |-> <<>>]

Blob(bytes) == [isnull |-> FALSE, blob |-> bytes]

BlobTruthy(e) == ~e.isnull /\ Len(e.blob) > 0

-----------------------------------------------------------------------------
(* The files on disk: modification time and content digest of a path *)

\* time.ctime(os.path.getmtime(path)): a rewritten file carries a later time
FileDate(path) == [ctime |-> Len(path) + (IF path \in modified THEN 1 ELSE 0)]

\* hashlib.md5 of the bytes of the file as they are now
FileMd5(path) == [md5 |-> path, rewritten |-> path \in modified]

\* what CLIP returns for the image at a path: a non-empty list of floats
ImageEmbedding(path) == <<1, Len(path)>>

-----------------------------------------------------------------------------
(* INGEST_METADATA: main submits process_image for every .jpg path *)

\* the test without lower(): '.JPG' does not pass
IsJpgCaseSensitive(file_path) == EndsWith(file_path, DotJpg)

IsJpg(file_path) == EndsWith(Lower(file_path), DotJpg)

\* the file_path column written by process_image
StoredPath(file_path) ==
    IF script = "generate_embeddings"
    THEN Remove(file_path, SOURCE_IMAGE_DIRECTORY)
    ELSE file_path

\* a SELECT that looks the file up by its filename alone
SelectExistsByName(file, file_path) ==
    \E k \in 1..Len(images) : images[k].filename = file

\* SELECT EXISTS(SELECT 1 FROM images WHERE filename=? AND file_path=? LIMIT 1)
SelectExists(file, file_path) ==
    \E k \in 1..Len(images) :
        images[k].filename = file /\ images[k].file_path = file_path

\* main: the call of hydrate_cache has ended; create_table; submit the tasks
M_Submit ==
    /\ pc = "hydrate"
    /\ hc.pc \in {"returned", "raised"}
    /\ IF hc.pc = "raised"
       THEN /\ pc' = "aborted"
            /\ tasks' = <<>>
       ELSE /\ pc' = "ingest"
            /\ tasks' = [k \in 1..Len(SelectSeq(hc.cached_files, IsJpg)) |->
                            [file_path |-> SelectSeq(hc.cached_files, IsJpg)[k],
                             st |-> "queued", file_exists |-> FALSE]]
    /\ unfinished' = [unfinished EXCEPT !.image = Len(tasks')]
    /\ hc' = IdleFrame
    /\ UNCHANGED <<readable, modified, txn, web, env, active, sig, connection, script, dir, cacheFile,
                   call, calls, run, storeVars, photos, idx, items, histVars>>

\* process_image up to fetchone(): stat and read the file, then the SELECT
PI_Check ==
    /\ pc \in {"ingest", "exiting"}
    /\ \E t \in 1..Len(tasks) :
          /\ tasks[t].st = "queued"
          /\ tasks' = [tasks EXCEPT ![t] =
                IF tasks[t].file_path \notin dir
                THEN [@ EXCEPT !.st = "raised"]
                ELSE [@ EXCEPT !.st = "checked",
                               !.file_exists =
                                   SelectExists(Basename(tasks[t].file_path),
                                                tasks[t].file_path)]]
          /\ unfinished' = IF tasks[t].file_path \notin dir
                           THEN [unfinished EXCEPT !.image = @ - 1]
                           ELSE unfinished
    /\ UNCHANGED <<readable, modified, txn, web, env, active, sig, connection, script, dir, cacheVars, pc,
                   run, storeVars, photos, idx, items, histVars>>

\* process_image from the test of file_exists to the commit
PI_Insert ==
    /\ pc \in {"ingest", "exiting"}
    /\ \E t \in 1..Len(tasks) :
          /\ tasks[t].st = "checked"
          /\ tasks' = [tasks EXCEPT ![t].st = "done"]
          /\ images' =
                IF tasks[t].file_exists THEN images
                ELSE Append(images,
                        [filename |-> Basename(tasks[t].file_path),
                         file_path |-> StoredPath(tasks[t].file_path),
                         file_date |-> FileDate(tasks[t].file_path),
                         file_md5 |-> FileMd5(tasks[t].file_path),
                         embeddings |-> Null])
    /\ unfinished' = [unfinished EXCEPT !.image = @ - 1]
    /\ UNCHANGED <<readable, modified, txn, web, env, active, sig, connection, script, dir, cacheVars, pc,
                   run, collection, photos, idx, items, histVars>>

\* a slip in the wait of lines 256-257: only the first future is waited for
FirstEnded(futures) ==
    IF Len(futures) = 0 THEN TRUE ELSE futures[1].st \in {"done", "raised"}

\* for future in futures: future.result()
AllEnded(futures) ==
    \A t \in 1..Len(futures) : futures[t].st \in {"done", "raised"}

\* main: future.result() for every future; an exception of a task is re-raised
M_Join ==
    /\ pc = "ingest"
    /\ AllEnded(tasks)
    /\ pc' = IF \E t \in 1..Len(tasks) : tasks[t].st = "raised"
             THEN "aborted" ELSE "load"
    /\ tasks' = <<>>
    /\ UNCHANGED <<sysVars, script, dir, cacheVars, run, storeVars, photos, idx, items,
                   histVars>>

-----------------------------------------------------------------------------
(* Loading the rows into main's list of photos *)

\* the response upload_embeddings hands back: None after any exception
\* (unreadable image, network error, raise_for_status on 4xx/5xx), else the
\* response with its status and the 'embeddings' of its JSON body
NoResponse ==
    [none |-> TRUE, status_code |-> 0, embeddings |-> <<>>, json |-> FALSE]

\* 'embeddings': msgpack.loads(row[4]) if row[4] else []
RowEmbeddings(row) ==
    IF BlobTruthy(row.embeddings) THEN Unpackb(row.embeddings.blob) ELSE <<>>

\* one dict per row, in rowid order; stored remembers whether the column was
\* non-null when the row was read, reply what the embedding endpoint answered
\* for this photo in this run
LoadPhotos ==
    [k \in 1..Len(images) |->
        [filename |-> images[k].filename,
         file_path |-> images[k].file_path,
         embeddings |-> RowEmbeddings(images[k]),
         stored |-> ~images[k].embeddings.isnull,
         reply |-> NoResponse]]

\* combined_v5.py decodes a second time what line 220 has already decoded:
\* msgpack.loads of a non-empty list raises TypeError
SecondDecodeRaises ==
    /\ script = "combined_v5"
    /\ \E k \in 1..Len(images) : ListTruthy(RowEmbeddings(images[k]))

\* main: SELECT ... FROM images; the scripts with a remote encoder then submit
\* process_embeddings for every photo
M_Load ==
    /\ pc = "load"
    /\ IF SecondDecodeRaises
       THEN /\ pc' = "aborted"
            /\ UNCHANGED <<photos, tasks>>
       ELSE /\ pc' = "embed"
            /\ photos' = LoadPhotos
            /\ tasks' = IF script = "generate_embeddings" THEN <<>>
                        ELSE [k \in 1..Len(images) |-> [st |-> "queued"]]
    /\ unfinished' = [unfinished EXCEPT !.embed = IF pc' = "embed" THEN Len(tasks')
                                                  ELSE @]
    /\ idx' = 1
    /\ UNCHANGED <<readable, modified, txn, web, env, active, sig, connection, script, dir, cacheVars,
                   run, storeVars, items, histVars>>

-----------------------------------------------------------------------------
(* FETCH_EMBEDDINGS *)

\* an UPDATE that refreshes the file date along with the embeddings
UpdateDbAndDate(image) ==
    [k \in 1..Len(images) |->
        IF images[k].filename = image.filename
        THEN [images[k] EXCEPT !.embeddings = Blob(Packb(image.embeddings)),
                               !.file_date = FileDate(images[k].file_path)]
        ELSE images[k]]

\* UPDATE images SET embeddings = ? WHERE filename = ?
UpdateDb(image) ==
    [k \in 1..Len(images) |->
        IF images[k].filename = image.filename
        THEN [images[k] EXCEPT !.embeddings = Blob(Packb(image.embeddings))]
        ELSE images[k]]

\* what can happen to one process_embeddings call of generate_embeddings.py:
\* Image.open raises on a path that is not there; an image that is there may
\* still fail to decode, and the UPDATE may fail with sqlite3.Error
LocalOutcomes(image_path) ==
    IF image_path \notin dir THEN {"encoder_raises"}
    ELSE {"ok"} \cup (IF faults < MaxFaults
                      THEN {"encoder_raises", "update_fails"} ELSE {})

\* a variant of lines 271-272 that hands every photo to a pool, as
\* combined_v5.py does: any photo from the loop position on may be started
EmbedStartablePool ==
    {k \in 1..Len(photos) : k >= idx}

\* for photo in photos: process_embeddings(photo) -- the photo the loop of the
\* main thread is at is the only one whose call can start
EmbedStartable ==
    {k \in 1..Len(photos) : k = idx}

\* generate_embeddings.py: process_embeddings enters clip.image_encoder for a
\* photo without embeddings
M_EmbedCall ==
    /\ script = "generate_embeddings"
    /\ pc = "embed"
    /\ \E k \in EmbedStartable :
          /\ k \notin active
          /\ ~ListTruthy(photos[k].embeddings)
          /\ active' = active \cup {k}
          /\ encCalls' = encCalls \cup {k}
    /\ unfinished' = [unfinished EXCEPT !.embed = @ + 1]
    /\ UNCHANGED <<readable, modified, txn, web, env, sig, connection, script, dir, cacheVars, pc, run,
                   storeVars, mainVars, faults, addCalls, snap>>

\* generate_embeddings.py: process_embeddings returns -- at once for a photo
\* that has embeddings, else when the encoder call has ended
M_Embed ==
    /\ script = "generate_embeddings"
    /\ pc = "embed"
    /\ idx <= Len(photos)
    /\ LET photo == photos[idx]
           image_path == Join(SOURCE_IMAGE_DIRECTORY, Slice1(photo.file_path))
       IN  IF ListTruthy(photo.embeddings)
           THEN UNCHANGED <<photos, images, faults, active, unfinished>>
           ELSE \E outcome \in LocalOutcomes(image_path) :
                   /\ idx \in active
                   /\ active' = active \ {idx}
                   /\ unfinished' = [unfinished EXCEPT !.embed = @ - 1]
                   /\ faults' = IF outcome # "ok" /\ image_path \in dir
                                THEN faults + 1 ELSE faults
                   /\ photos' = IF outcome = "encoder_raises" THEN photos
                                ELSE [photos EXCEPT ![idx].embeddings =
                                         ImageEmbedding(image_path)]
                   /\ images' = IF outcome = "ok"
                                THEN UpdateDb([photo EXCEPT !.embeddings =
                                                  ImageEmbedding(image_path)])
                                ELSE images
    /\ idx' = idx + 1
    /\ UNCHANGED <<readable, modified, txn, web, env, sig, connection, script, dir, cacheVars, pc, run,
                   collection, tasks, items, encCalls, addCalls, snap>>

\* what chromadb.PersistentClient / get_or_create_collection can do: return,
\* or raise when the index cannot be opened
ChromaOpens ==
    {TRUE} \cup (IF faults < MaxFaults THEN {FALSE} ELSE {})

\* generate_embeddings.py: connection.close(); open the Chroma collection.
\* Nothing catches an exception of lines 284-285: main dies there (a run
\* that died there is not followed by a further run in this model).
M_EmbedDone ==
    /\ script = "generate_embeddings"
    /\ pc = "embed"
    /\ idx > Len(photos)
    /\ \E opens \in ChromaOpens :
          /\ pc' = IF opens THEN "sync" ELSE "index_unavailable"
          /\ faults' = IF opens THEN faults ELSE faults + 1
    /\ idx' = 1
    /\ connection' = [connection EXCEPT !.st = "closed"]
    /\ UNCHANGED <<readable, modified, txn, web, env, active, unfinished, sig, script, dir,
                   cacheVars, run, storeVars, tasks, photos, items, encCalls,
                   addCalls, snap>>

Response(code, list) ==
    [none |-> FALSE, status_code |-> code, embeddings |-> list, json |-> TRUE]

\* a response whose body is not JSON: response.json() raises
NotJson(code) ==
    [none |-> FALSE, status_code |-> code, embeddings |-> <<>>, json |-> FALSE]

StatusOk == 200

StatusCreated == 201

StatusClientError == 400

StatusServerError == 500

\* what requests.post may come back with for an image: no answer at all (a
\* network error, or an image that cannot be opened), or an answer with a
\* status and a body
Responses(image_path) ==
    IF image_path \notin dir THEN {NoResponse}
    ELSE {Response(StatusOk, ImageEmbedding(image_path))} \cup
         (IF faults < MaxFaults
          THEN {NoResponse, Response(StatusOk, <<>>),
                Response(StatusCreated, ImageEmbedding(image_path)),
                Response(StatusServerError, ImageEmbedding(image_path)),
                NotJson(StatusOk)}
          ELSE {})

\* upload_embeddings: raise_for_status() raises on 4xx and 5xx, and every
\* exception ends in return None
upload_embeddings(reply) ==
    IF reply.none \/ reply.status_code >= StatusClientError
    THEN NoResponse ELSE reply

\* combined_v3.py / combined_v5.py: one process_embeddings task of the pool
PE_Run ==
    /\ script \in {"combined_v3", "combined_v5"}
    /\ pc = "embed"
    /\ \E t \in 1..Len(tasks) :
          /\ tasks[t].st = "queued"
          /\ IF ListTruthy(photos[t].embeddings)
             THEN /\ tasks' = [tasks EXCEPT ![t].st = "done"]
                  /\ UNCHANGED <<photos, images, encCalls, faults>>
             ELSE \E reply \in Responses(photos[t].file_path) :
                   LET response == upload_embeddings(reply)
                       accepted == ~response.none /\ response.status_code = StatusOk
                   IN
                     /\ encCalls' = encCalls \cup {t}
                     /\ faults' =
                           IF reply # Response(StatusOk,
                                          ImageEmbedding(photos[t].file_path))
                              /\ photos[t].file_path \in dir
                           THEN faults + 1 ELSE faults
                     /\ tasks' = [tasks EXCEPT ![t].st =
                                     IF accepted /\ ~response.json
                                     THEN "raised" ELSE "done"]
                     /\ photos' = [photos EXCEPT
                                     ![t].reply = reply,
                                     ![t].embeddings =
                                         IF accepted /\ response.json
                                         THEN response.embeddings ELSE @]
                     /\ images' = IF accepted /\ response.json
                                  THEN UpdateDb([photos[t] EXCEPT !.embeddings =
                                                    response.embeddings])
                                  ELSE images
    /\ unfinished' = [unfinished EXCEPT !.embed = @ - 1]
    /\ UNCHANGED <<readable, modified, txn, web, env, active, sig, connection, script, dir, cacheVars, pc,
                   run, collection, idx, items, addCalls, snap>>

\* combined_v3.py / combined_v5.py: future.result() re-raises what a
\* process_embeddings task raised, once the pool has drained
M_EmbedRaised ==
    /\ script \in {"combined_v3", "combined_v5"}
    /\ pc = "embed"
    /\ AllEnded(tasks)
    /\ \E t \in 1..Len(tasks) : tasks[t].st = "raised"
    /\ pc' = "aborted"
    /\ UNCHANGED <<sysVars, script, dir, cacheVars, run, storeVars, mainVars,
                   histVars>>

-----------------------------------------------------------------------------
(* SYNC_INDEX of generate_embeddings.py *)

\* collection.get(ids=...): a GetResult dict; its 'ids' lists the ids found
CollectionGet(ids) ==
    [ids |-> SelectSeq(ids, LAMBDA x : x \in collection),
     embeddings |-> <<>>, documents |-> <<>>, metadatas |-> <<>>]

\* the column of some row with this filename is non-null
StoredInDb(id) ==
    \E k \in 1..Len(images) : images[k].filename = id /\ ~images[k].embeddings.isnull

\* one iteration of the loop over photos: skip a photo without embeddings,
\* skip when collection.get returned something truthy, else collection.add
M_Sync ==
    /\ script = "generate_embeddings"
    /\ pc = "sync"
    /\ idx <= Len(photos)
    /\ IF ListTruthy(photos[idx].embeddings)
          /\ ~DictTruthy(CollectionGet(<<photos[idx].filename>>))
       THEN /\ collection' = collection \cup {photos[idx].filename}
            /\ addCalls' = addCalls \cup
                  {[id |-> photos[idx].filename,
                    present |-> photos[idx].filename \in collection,
                    stored |-> StoredInDb(photos[idx].filename)]}
       ELSE UNCHANGED <<collection, addCalls>>
    /\ idx' = idx + 1
    /\ UNCHANGED <<sysVars, script, dir, cacheVars, pc, run, images, tasks, photos,
                   items, faults, encCalls, snap>>

-----------------------------------------------------------------------------
(* End of a run, and the next run of the same script on the same stores *)

\* every .jpg file of the directory has its row, with a non-empty embedding
AllEmbedded ==
    \A p \in dir : IsJpg(p) =>
        \E k \in 1..Len(images) :
            /\ images[k].filename = Basename(p)
            /\ images[k].file_path = StoredPath(p)
            /\ ListTruthy(RowEmbeddings(images[k]))

RunEnds ==
    \/ script = "generate_embeddings" /\ pc = "sync" /\ idx > Len(photos)
    \/ /\ script \in {"combined_v3", "combined_v5"}
       /\ pc = "embed"
       /\ \A t \in 1..Len(tasks) : tasks[t].st = "done"

\* main returns
M_Done ==
    /\ RunEnds
    /\ pc' = "done"
    /\ snap' = Append(snap, [rows |-> Len(images), ids |-> collection,
                             allEmbedded |-> AllEmbedded])
    /\ connection' = [connection EXCEPT !.st = "closed"]
    /\ UNCHANGED <<readable, modified, txn, web, env, active, unfinished, sig, script, dir, cacheVars, run,
                   storeVars, mainVars, faults, encCalls, addCalls>>

\* the script is started again: a new process, the same files and stores
NextRun ==
    /\ pc \in {"done", "aborted", "exited"}
    /\ run < MaxRuns
    /\ run' = run + 1
    /\ pc' = "hydrate"
    /\ hc' = IdleFrame
    /\ tasks' = <<>>
    /\ photos' = <<>>
    /\ idx' = 1
    /\ encCalls' = {}
    /\ active' = {}
    /\ unfinished' = [image |-> 0, embed |-> 0]
    /\ sig' = [delivered |-> FALSE, queued |-> {}]
    /\ connection' = [st |-> "open", flushed |-> FALSE]
    /\ UNCHANGED <<readable, modified, txn, web, env, script, dir, cacheFile, call, calls,
                   storeVars, items, faults, addCalls, snap>>

-----------------------------------------------------------------------------
(* SIGINT / SIGTERM: graceful_shutdown runs on the main thread *)

\* the module-level name the script binds its SQLite connection to
ConnectionGlobal(s) ==
    IF s = "combined_v3" THEN "conn_pool" ELSE "connection"

\* the name graceful_shutdown looks up in globals()
HandlerGlobal(s) ==
    IF s = "combined_v3" THEN "conn" ELSE "conn_pool"

\* graceful_shutdown up to exit(0): the connection is touched only if the
\* name tested is a global; combined_v3.py then commits and closes,
\* generate_embeddings.py and combined_v5.py close without a commit
graceful_shutdown(s, c) ==
    IF HandlerGlobal(s) = ConnectionGlobal(s)
    THEN [st |-> "closed", flushed |-> (s = "combined_v3")]
    ELSE c

\* a signal arrives while main waits for the ingest pool: the handler runs,
\* exit(0) raises SystemExit, and leaving the with block of the pool calls
\* shutdown(wait=True), which lets the pool work off everything submitted
M_Signal ==
    /\ pc = "ingest"
    /\ pc' = "exiting"
    /\ sig' = [delivered |-> TRUE,
               queued |-> {t \in 1..Len(tasks) : tasks[t].st = "queued"}]
    /\ connection' = graceful_shutdown(script, connection)
    /\ UNCHANGED <<readable, modified, txn, web, env, active, unfinished, script, dir, cacheVars, run,
                   storeVars, mainVars, histVars>>

\* the pool has drained; the process exits
M_Exit ==
    /\ pc = "exiting"
    /\ AllEnded(tasks)
    /\ pc' = "exited"
    /\ UNCHANGED <<sysVars, script, dir, cacheVars, run, storeVars, mainVars,
                   histVars>>

InitShutdown ==
    /\ script \in Scripts
    /\ dir \in Dirs
    /\ cacheFile = NoFile
    /\ readable = TRUE
    /\ Fresh

NextShutdown ==
    \/ HC_Call \/ HC_Exists \/ HC_Load \/ HC_Len \/ HC_Walk
    \/ HC_Open \/ HC_Write \/ HC_Close \/ HC_Return
    \/ M_Submit \/ PI_Check \/ PI_Insert \/ M_Join \/ M_Load
    \/ M_EmbedCall \/ M_Embed \/ M_EmbedDone \/ M_Sync \/ PE_Run
    \/ M_EmbedRaised \/ M_Done \/ NextRun \/ M_Signal \/ M_Exit

SpecShutdown == InitShutdown /\ [][NextShutdown]_vars

-----------------------------------------------------------------------------
(* generate_embeddings.py: runs of main() on an unchanged directory *)

Init ==
    /\ script = "generate_embeddings"
    /\ dir \in Dirs
    /\ cacheFile = NoFile
    /\ readable \in BOOLEAN
    /\ Fresh

Next ==
    \/ HC_Call \/ HC_Exists \/ HC_Load \/ HC_Len \/ HC_Walk
    \/ HC_Open \/ HC_Write \/ HC_Close \/ HC_Return
    \/ M_Submit \/ PI_Check \/ PI_Insert \/ M_Join \/ M_Load
    \/ M_EmbedCall \/ M_Embed \/ M_EmbedDone \/ M_Sync \/ M_Done \/ NextRun

Spec == Init /\ [][Next]_vars

-----------------------------------------------------------------------------
(* generate_embeddings.py while files are deleted from the directory: a    *)
(* path of the file list may be gone by the time it is processed.          *)

NextChanging ==
    \/ HC_Call \/ HC_Exists \/ HC_Load \/ HC_Len \/ HC_Walk
    \/ HC_Open \/ HC_Write \/ HC_Close \/ HC_Return
    \/ M_Submit \/ PI_Check \/ PI_Insert \/ M_Join \/ M_Load
    \/ M_EmbedCall \/ M_Embed \/ M_EmbedDone \/ M_Sync \/ M_Done \/ NextRun
    \/ RemoveFile

SpecChanging == Init /\ [][NextChanging]_vars

-----------------------------------------------------------------------------
(* combined_v3.py / combined_v5.py: runs of main().  The cache file is read *)
(* as it is found: the first run may meet a cache file left by an earlier  *)
(* tool in which a path is listed twice.                                   *)

InitCombined ==
    /\ script \in {"combined_v3", "combined_v5"}
    /\ dir \in Dirs
    /\ cacheFile \in {NoFile} \cup
           {[exists |-> TRUE, bytes |-> Packb(<<p, p>>)] : p \in dir}
    /\ readable = TRUE
    /\ Fresh

NextCombined ==
    \/ HC_Call \/ HC_Exists \/ HC_Load \/ HC_Len \/ HC_Walk
    \/ HC_Open \/ HC_Write \/ HC_Close \/ HC_Return
    \/ M_Submit \/ PI_Check \/ PI_Insert \/ M_Join \/ M_Load
    \/ PE_Run \/ M_EmbedRaised \/ M_Done \/ NextRun

SpecCombined == InitCombined /\ [][NextCombined]_vars

\* the same runs, with files rewritten on disk between one run and the next
NextRewritten ==
    \/ NextCombined
    \/ TouchFile

SpecRewritten == InitCombined /\ [][NextRewritten]_vars

-----------------------------------------------------------------------------
(* generate_embeddings_db.py: the stand-alone embedding script, run on the *)
(* table a run of combined_v3.py has left (completed, aborted or           *)
(* interrupted).  It keeps the embeddings as JSON text.                    *)

\* json.dumps(list).encode('utf-8'): brackets around the numbers
JsonDumps(list) ==
    <<[tok |-> "["]>> \o [k \in 1..Len(list) |-> [num |-> list[k]]]
                     \o <<[tok |-> "]"]>>

\* json.loads succeeds
JsonDecodable(bytes) ==
    /\ Len(bytes) >= 2
    /\ DOMAIN bytes[1] = {"tok"}
    /\ bytes[1].tok = "["
    /\ DOMAIN bytes[Len(bytes)] = {"tok"}
    /\ bytes[Len(bytes)].tok = "]"
    /\ \A k \in 2..(Len(bytes) - 1) : DOMAIN bytes[k] = {"num"}

JsonLoads(bytes) == [k \in 1..(Len(bytes) - 2) |-> bytes[k + 1].num]

\* update_db of generate_embeddings_db.py
UpdateDbJson(image) ==
    [k \in 1..Len(images) |->
        IF images[k].filename = image.filename
        THEN [images[k] EXCEPT !.embeddings = Blob(JsonDumps(image.embeddings))]
        ELSE images[k]]

\* json.loads(row[4]) if row[4] else []
RowEmbeddingsJson(row) ==
    IF BlobTruthy(row.embeddings) THEN JsonLoads(row.embeddings.blob) ELSE <<>>

\* the script is started once combined_v3.py has ended
E_Start ==
    /\ script = "combined_v3"
    /\ pc \in {"done", "aborted", "exited"}
    /\ script' = "generate_embeddings_db"
    /\ pc' = "e_load"
    /\ tasks' = <<>>
    /\ photos' = <<>>
    /\ idx' = 1
    /\ encCalls' = {}
    /\ sig' = [delivered |-> FALSE, queued |-> {}]
    /\ connection' = [st |-> "open", flushed |-> FALSE]
    /\ UNCHANGED <<readable, modified, txn, web, env, active, unfinished, dir, cacheVars, run, storeVars,
                   items, faults, addCalls, snap>>

\* lines 75-76: SELECT ... FROM images and the list of photos; a non-empty
\* blob that is not JSON makes json.loads raise
E_Load ==
    /\ script = "generate_embeddings_db"
    /\ pc = "e_load"
    /\ IF \E k \in 1..Len(images) :
             BlobTruthy(images[k].embeddings)
             /\ ~JsonDecodable(images[k].embeddings.blob)
       THEN /\ pc' = "e_aborted"
            /\ UNCHANGED photos
       ELSE /\ pc' = "e_loop"
            /\ photos' = [k \in 1..Len(images) |->
                             [filename |-> images[k].filename,
                              file_path |-> images[k].file_path,
                              embeddings |-> RowEmbeddingsJson(images[k]),
                              stored |-> ~images[k].embeddings.isnull,
                              reply |-> NoResponse]]
    /\ idx' = 1
    /\ UNCHANGED <<sysVars, script, dir, cacheVars, run, storeVars, tasks, items,
                   histVars>>

\* lines 82-97, one iteration: skip a photo with embeddings; else upload,
\* read response.status_code (AttributeError on None), and on 200 store
\* response.json().get('embeddings', [])
E_Step ==
    /\ script = "generate_embeddings_db"
    /\ pc = "e_loop"
    /\ idx <= Len(photos)
    /\ IF ListTruthy(photos[idx].embeddings)
       THEN UNCHANGED <<photos, images, encCalls, faults, pc>>
       ELSE \E reply \in Responses(photos[idx].file_path) :
             LET response == upload_embeddings(reply)
                 accepted == ~response.none /\ response.status_code = StatusOk
             IN
               /\ encCalls' = encCalls \cup {idx}
               /\ faults' = IF reply # Response(StatusOk,
                                           ImageEmbedding(photos[idx].file_path))
                               /\ photos[idx].file_path \in dir
                            THEN faults + 1 ELSE faults
               /\ pc' = IF response.none \/ (accepted /\ ~response.json)
                        THEN "e_aborted" ELSE pc
               /\ photos' = [photos EXCEPT
                               ![idx].reply = reply,
                               ![idx].embeddings =
                                   IF accepted /\ response.json
                                   THEN response.embeddings ELSE @]
               /\ images' = IF accepted /\ response.json
                            THEN UpdateDbJson([photos[idx] EXCEPT !.embeddings =
                                                  response.embeddings])
                            ELSE images
    /\ idx' = idx + 1
    /\ UNCHANGED <<sysVars, script, dir, cacheVars, run, collection, tasks, items,
                   addCalls, snap>>

\* line 100: conn.close()
E_End ==
    /\ script = "generate_embeddings_db"
    /\ pc = "e_loop"
    /\ idx > Len(photos)
    /\ pc' = "e_done"
    /\ connection' = [connection EXCEPT !.st = "closed"]
    /\ UNCHANGED <<readable, modified, txn, web, env, active, unfinished, sig, script, dir, cacheVars, run,
                   storeVars, mainVars, histVars>>

InitEmbedDb ==
    /\ script = "combined_v3"
    /\ dir \in Dirs
    /\ cacheFile = NoFile
    /\ readable = TRUE
    /\ Fresh

NextEmbedDb ==
    \/ HC_Call \/ HC_Exists \/ HC_Load \/ HC_Walk
    \/ HC_Open \/ HC_Write \/ HC_Close \/ HC_Return
    \/ M_Submit \/ PI_Check \/ PI_Insert \/ M_Join \/ M_Load
    \/ PE_Run \/ M_EmbedRaised \/ M_Done \/ NextRun \/ M_Signal \/ M_Exit
    \/ E_Start \/ E_Load \/ E_Step \/ E_End

SpecEmbedDb == InitEmbedDb /\ [][NextEmbedDb]_vars

-----------------------------------------------------------------------------
(* The stand-alone sync scripts, load_embeddings_into_chroma.py and        *)
(* generate_chroma_db.py, run on the table a run of generate_embeddings.py *)
(* has left.                                                               *)

SyncScripts == {"load_embeddings_into_chroma", "generate_chroma_db"}

\* SELECT ... FROM images WHERE embeddings IS NOT NULL
NonNullRows == SelectSeq(images, LAMBDA row : ~row.embeddings.isnull)

\* what one collection.add call is recorded as
AddCall(id) ==
    [id |-> id, present |-> id \in collection, stored |-> StoredInDb(id)]

\* a sync script is started once generate_embeddings.py has ended
S_Start ==
    /\ script = "generate_embeddings"
    /\ pc = "done"
    /\ \E s \in SyncScripts : script' = s
    /\ pc' = "sync_load"
    /\ photos' = <<>>
    /\ idx' = 1
    /\ UNCHANGED <<sysVars, dir, cacheVars, run, storeVars, tasks, items, histVars>>

\* load_embeddings_into_chroma.py: images = load_embeddings();
\* items = collection.get()["ids"]; if len(items) <= len(images)
LS_Load ==
    /\ script = "load_embeddings_into_chroma"
    /\ pc = "sync_load"
    /\ photos' = [k \in 1..Len(NonNullRows) |->
                    [id |-> NonNullRows[k].filename,
                     file_path |-> NonNullRows[k].file_path,
                     embeddings |-> Unpackb(NonNullRows[k].embeddings.blob)]]
    /\ items' = collection
    /\ idx' = 1
    /\ pc' = IF Cardinality(collection) <= Len(NonNullRows)
             THEN "sync_loop" ELSE "sync_done"
    /\ UNCHANGED <<sysVars, script, dir, cacheVars, run, storeVars, tasks, histVars>>

\* what collection.add can do with an id: add it (Chroma ignores an add of an
\* id it holds), or raise -- for an id it holds, or for any id when the index
\* fails
AddOutcomes(id) ==
    {"added"} \cup (IF id \in collection \/ faults < MaxFaults
                    THEN {"raises"} ELSE {})

\* one iteration of the loop: skip an id found in items, else collection.add.
\* Nothing catches an exception of collection.add in this script.
LS_Step ==
    /\ script = "load_embeddings_into_chroma"
    /\ pc = "sync_loop"
    /\ idx <= Len(photos)
    /\ IF photos[idx].id \in items
       THEN UNCHANGED <<collection, addCalls, pc, faults>>
       ELSE /\ addCalls' = addCalls \cup {AddCall(photos[idx].id)}
            /\ \E outcome \in AddOutcomes(photos[idx].id) :
                  /\ pc' = IF outcome = "raises" THEN "sync_aborted" ELSE pc
                  /\ collection' = IF outcome = "raises" THEN collection
                                    ELSE collection \cup {photos[idx].id}
                  /\ faults' = IF outcome = "raises"
                                   /\ photos[idx].id \notin collection
                                THEN faults + 1 ELSE faults
    /\ idx' = idx + 1
    /\ UNCHANGED <<sysVars, script, dir, cacheVars, run, images, tasks, photos, items,
                   encCalls, snap>>

LS_End ==
    /\ script = "load_embeddings_into_chroma"
    /\ pc = "sync_loop"
    /\ idx > Len(photos)
    /\ pc' = "sync_done"
    /\ UNCHANGED <<sysVars, script, dir, cacheVars, run, storeVars, mainVars, histVars>>

\* generate_chroma_db.py main: load_meme_embeddings(), then one
\* add_embedding_to_chroma task per meme is submitted to the pool
GC_Load ==
    /\ script = "generate_chroma_db"
    /\ pc = "sync_load"
    /\ photos' = [k \in 1..Len(NonNullRows) |->
                    [filename |-> NonNullRows[k].filename,
                     embeddings |-> Unpackb(NonNullRows[k].embeddings.blob)]]
    /\ tasks' = [k \in 1..Len(NonNullRows) |-> [st |-> "queued"]]
    /\ pc' = "sync_pool"
    /\ UNCHANGED <<sysVars, script, dir, cacheVars, run, storeVars, idx, items, histVars>>

\* add_embedding_to_chroma: collection.add with no check; an exception is
\* caught and logged
GC_Add ==
    /\ script = "generate_chroma_db"
    /\ pc = "sync_pool"
    /\ \E t \in 1..Len(tasks) :
          /\ tasks[t].st = "queued"
          /\ tasks' = [tasks EXCEPT ![t].st = "done"]
          /\ addCalls' = addCalls \cup {AddCall(photos[t].filename)}
          /\ collection' = collection \cup {photos[t].filename}
    /\ UNCHANGED <<sysVars, script, dir, cacheVars, pc, run, images, photos, idx, items,
                   faults, encCalls, snap>>

GC_End ==
    /\ script = "generate_chroma_db"
    /\ pc = "sync_pool"
    /\ \A t \in 1..Len(tasks) : tasks[t].st = "done"
    /\ pc' = "sync_done"
    /\ UNCHANGED <<sysVars, script, dir, cacheVars, run, storeVars, mainVars, histVars>>

\* the same sync script is run once more
S_Again ==
    /\ pc \in {"sync_done", "sync_aborted"}
    /\ calls < MaxCalls
    /\ calls' = calls + 1
    /\ pc' = "sync_load"
    /\ tasks' = <<>>
    /\ photos' = <<>>
    /\ idx' = 1
    /\ items' = {}
    /\ UNCHANGED <<sysVars, script, dir, cacheFile, hc, call, run, storeVars, histVars>>

NextSync ==
    \/ HC_Call \/ HC_Exists \/ HC_Load \/ HC_Len \/ HC_Walk
    \/ HC_Open \/ HC_Write \/ HC_Close \/ HC_Return
    \/ M_Submit \/ PI_Check \/ PI_Insert \/ M_Join \/ M_Load
    \/ M_EmbedCall \/ M_Embed \/ M_EmbedDone \/ M_Sync \/ M_Done \/ NextRun
    \/ S_Start \/ LS_Load \/ LS_Step \/ LS_End
    \/ GC_Load \/ GC_Add \/ GC_End \/ S_Again

SpecSync == Init /\ [][NextSync]_vars

\* runs of generate_embeddings.py, each followed at most by the load of a sync
\* script: what the readers of the embeddings column decode
NextReadBack ==
    \/ Next
    \/ S_Start \/ LS_Load \/ GC_Load

SpecReadBack == Init /\ [][NextReadBack]_vars

-----------------------------------------------------------------------------
(* combined_v2.py: the sequential ingest loop of main() on one connection. *)
(* The file list is any list of at most MaxListed entries; idx is the      *)
(* position of the loop, and the rows are counted, not kept.               *)

commit_threshold == 100

\* a test against twice the threshold
CommitDueLate(commit_counter) == commit_counter >= 2 * commit_threshold

\* if commit_counter >= commit_threshold
CommitDue(commit_counter) == commit_counter >= commit_threshold

\* what an entry of the file list can be: not a .jpg, a .jpg without a row, a
\* .jpg that has its row
Entries == {"other", "new", "known"}

\* main has its file list, from the cache file or from hydrate_cache:
\* commit_counter = 0
V2_Start ==
    /\ script = "combined_v2"
    /\ pc = "hydrate"
    /\ pc' = "v2_ingest"
    /\ idx' = 1
    /\ txn' = [commit_counter |-> 0, uncommitted |-> 0]
    /\ UNCHANGED <<readable, modified, web, env, active, unfinished, sig, connection,
                   script, dir, cacheVars, run, storeVars, tasks, photos, items,
                   histVars>>

\* one iteration of the loop: process_image for a .jpg entry, commit_counter
\* += 1, and conn.commit() with the counter reset once the threshold is met
V2_Step ==
    /\ script = "combined_v2"
    /\ pc = "v2_ingest"
    /\ idx <= MaxListed
    /\ \E entry \in Entries :
          LET inserted == IF entry = "new" THEN 1 ELSE 0
              counted == IF entry = "other" THEN 0 ELSE 1
          IN  txn' = IF CommitDue(txn.commit_counter + counted)
                     THEN [commit_counter |-> 0, uncommitted |-> 0]
                     ELSE [commit_counter |-> txn.commit_counter + counted,
                           uncommitted |-> txn.uncommitted + inserted]
    /\ idx' = idx + 1
    /\ UNCHANGED <<readable, modified, web, env, active, unfinished, sig, connection,
                   script, dir, cacheVars, pc, run, storeVars, tasks, photos,
                   items, histVars>>

\* the file list is exhausted: conn.commit() after the loop
V2_End ==
    /\ script = "combined_v2"
    /\ pc = "v2_ingest"
    /\ pc' = "v2_load"
    /\ txn' = [txn EXCEPT !.uncommitted = 0]
    /\ UNCHANGED <<readable, modified, web, env, active, unfinished, sig, connection,
                   script, dir, cacheVars, run, pipeVars>>

InitV2 ==
    /\ script = "combined_v2"
    /\ dir = {}
    /\ cacheFile = NoFile
    /\ readable = TRUE
    /\ Fresh

NextV2 ==
    \/ V2_Start
    \/ V2_Step
    \/ V2_End

SpecV2 == InitV2 /\ [][NextV2]_vars

-----------------------------------------------------------------------------
(* start_web.py: /image/<filename> on a collection whose ids are filenames. *)
(* An embedding is one coordinate; the distance of two embeddings is the   *)
(* absolute difference.                                                    *)

NUM_IMAGE_RESULTS == 2

Ids == {"a.jpg", "b.jpg", "c.jpg", "d.jpg"}

Distance(u, v) == IF u >= v THEN u - v ELSE v - u

\* collection.query(query_embeddings=[q], n_results=n)["ids"][0]: n ids (or
\* all, if the collection holds fewer), nearest first; ids at the same
\* distance come in whatever order the index yields them
CollectionQuery(index, q, n) ==
    LET m == IF n <= Cardinality(DOMAIN index) THEN n
             ELSE Cardinality(DOMAIN index)
    IN  {r \in [1..m -> DOMAIN index] :
            /\ \A i, j \in 1..m : r[i] = r[j] => i = j
            /\ \A i, j \in 1..m :
                  i < j => Distance(index[r[i]], q) <= Distance(index[r[j]], q)
            /\ \A id \in DOMAIN index :
                  (\A i \in 1..m : r[i] # id) =>
                      Distance(index[id], q) >= Distance(index[r[m]], q)}

\* serve_specific_image: get the embedding of the file, query the
\* NUM_IMAGE_RESULTS + 1 nearest ids, render images[1:]
serve_specific_image ==
    /\ script = "start_web"
    /\ \E filename \in DOMAIN web.index :
          \E results \in CollectionQuery(web.index, web.index[filename],
                                         NUM_IMAGE_RESULTS + 1) :
              web' = [web EXCEPT !.pc = "rendered",
                                 !.filename = filename,
                                 !.results = results,
                                 !.images = Tail(results)]
    /\ UNCHANGED <<readable, modified, txn, env, active, unfinished, sig,
                   connection, script, dir, cacheVars, pc, run, pipeVars>>

InitWeb ==
    /\ script = "start_web"
    /\ dir = {}
    /\ cacheFile = NoFile
    /\ readable = TRUE
    /\ hc = IdleFrame
    /\ call = [dirAtCall |-> {}, cacheAtCall |-> NoFile, walked |-> FALSE]
    /\ calls = 0
    /\ pc = "serving"
    /\ run = 1
    /\ images = <<>>
    /\ collection = Ids
    /\ tasks = <<>>
    /\ photos = <<>>
    /\ idx = 1
    /\ items = {}
    /\ faults = 0
    /\ encCalls = {}
    /\ addCalls = {}
    /\ snap = <<>>
    /\ active = {}
    /\ unfinished = [image |-> 0, embed |-> 0]
    /\ sig = [delivered |-> FALSE, queued |-> {}]
    /\ connection = [st |-> "open", flushed |-> FALSE]
    /\ modified = {}
    /\ txn = [commit_counter |-> 0, uncommitted |-> 0]
    /\ env = [IMAGE_DIRECTORY |-> Root]
    /\ \E index \in [Ids -> 0..MaxCoord] : web = [NoPage EXCEPT !.index = index]

NextWeb ==
    serve_specific_image

SpecWeb == InitWeb /\ [][NextWeb]_vars

-----------------------------------------------------------------------------
(* Claims about generate_embeddings.py main() (checked under Spec) *)

\* C1: a second run of main() over the unchanged directory, with the same
\* cache file, table and collection, ends with as many rows in the images
\* table as the first run left, and with the same ids in the collection.
C1_Idempotence ==
    Len(snap) >= 2 =>
        /\ snap[2].rows = snap[1].rows
        /\ snap[2].ids = snap[1].ids

\* C3: when the first run has stored an embedding for every .jpg file, the
\* second run never calls clip.image_encoder.
C3_NoEncoderCallOnRepeat ==
    (run = 2 /\ Len(snap) >= 1 /\ snap[1].allEmbedded) => encCalls = {}

\* C6: when main() has finished SYNC_INDEX, the filename of every row with a
\* non-empty embedding is an id of the collection.
C6_SyncCompleteness ==
    pc = "done" =>
        \A k \in 1..Len(images) :
            ListTruthy(RowEmbeddings(images[k])) =>
                images[k].filename \in collection

\* C7: every id passed to collection.add belonged, at the moment of the call,
\* to a row whose embeddings column was non-null.
C7_IndexNeverAhead ==
    \A c \in addCalls : c.stored

\* SYNC_INDEX has gone past a photo that carries an embedding in memory while
\* its row is still NULL (update_db failed in FETCH_EMBEDDINGS)
C7_UpdateFailedCase ==
    /\ pc = "sync"
    /\ \E k \in 1..(idx - 1) :
          /\ k <= Len(photos)
          /\ ListTruthy(photos[k].embeddings)
          /\ ~StoredInDb(photos[k].filename)

-----------------------------------------------------------------------------
(* Claims about interrupts (checked under SpecShutdown) *)

\* C19: after a signal has been delivered while the ingest pool was running,
\* no process_image task that had not started by then begins to execute.
C19_InterruptStopsNewWork ==
    sig.delivered =>
        \A t \in sig.queued : t \in 1..Len(tasks) /\ tasks[t].st = "queued"

\* C20: once graceful_shutdown has run with the SQLite connection open, the
\* pending writes are committed and the connection is closed.
C20_InterruptFlushesAndCloses ==
    sig.delivered => connection.st = "closed" /\ connection.flushed

-----------------------------------------------------------------------------
(* Claims about FETCH_EMBEDDINGS with a remote encoder *)

\* the embedding phase of the running script is over, by its end or by an
\* exception
FetchOver ==
    \/ pc \in {"e_done", "e_aborted"}
    \/ script = "combined_v3" /\ pc \in {"done", "aborted"}

\* C14 (checked under SpecEmbedDb): a failed embedding request leaves its row
\* without an embedding and stops nothing else: when the phase is over, every
\* photo still lacking an embedding has been attempted in this run.
C14_FailureConfinedToRow ==
    FetchOver =>
        \A k \in 1..Len(photos) :
            ~ListTruthy(photos[k].embeddings) => k \in encCalls

\* C12: when the root image directory cannot be read the run aborts in
\* DISCOVER: no cache file is written and main never gets past hydrate_cache.
C12_DiscoveryFatal ==
    ~readable =>
        /\ ~cacheFile.exists
        /\ pc \in {"hydrate", "aborted"}

\* C17: during FETCH_EMBEDDINGS of generate_embeddings.py at most one
\* clip.image_encoder call is in progress at any time.
C17_EncoderSerialized ==
    Cardinality(active) <= 1

\* an encoder call is in progress while a later photo still waits for its
\* embedding, after an ingest phase that ran two tasks on the pool
C17_Witness ==
    /\ pc = "embed"
    /\ active # {}
    /\ Len(images) >= 2
    /\ \E k \in 1..Len(photos) :
          k \notin active /\ k > idx /\ ~ListTruthy(photos[k].embeddings)

\* some process_embeddings call of the current run has started
EmbedStarted ==
    /\ pc = "embed"
    /\ \/ idx > 1
       \/ active # {}
       \/ \E t \in 1..Len(tasks) : tasks[t].st # "queued"

\* the loop of SYNC_INDEX has started
SyncStarted ==
    pc = "sync" /\ idx > 1

\* C18: no process_embeddings call starts before every submitted
\* process_image task has ended, and nothing of SYNC_INDEX starts before every
\* process_embeddings call has ended.
C18_PhasesDoNotInterleave ==
    /\ EmbedStarted => unfinished.image = 0
    /\ SyncStarted => unfinished.image = 0 /\ unfinished.embed = 0

\* SYNC_INDEX is under way after two process_image tasks and two
\* process_embeddings calls
C18_Witness ==
    /\ SyncStarted
    /\ Len(photos) >= 2
    /\ Cardinality(encCalls) >= 2

-----------------------------------------------------------------------------
(* Claims about generate_embeddings.py on a changing directory (checked    *)
(* under SpecChanging)                                                     *)

\* C13: a .jpg path that cannot be read during INGEST_METADATA is skipped and
\* the run goes on: main leaves the ingest phase only towards loading the
\* rows for FETCH_EMBEDDINGS, never by aborting.
C13_UnreadableFileSkipped ==
    [][(pc = "ingest" /\ pc' # "ingest") => pc' = "load"]_vars

-----------------------------------------------------------------------------
(* Claims about combined_v3.py / combined_v5.py (checked under SpecCombined) *)

\* the file list main iterates over: what hydrate_cache returned, which is
\* what the cache file holds
FileList ==
    {Unpackb(cacheFile.bytes)[k] : k \in 1..Len(Unpackb(cacheFile.bytes))}

\* C2: in every reachable state of the images table no two rows share the
\* same (filename, file_path), also when process_image runs on several pool
\* workers at once and the file list holds a path more than once.
C2_NoDuplicateRows ==
    \A j, k \in 1..Len(images) :
        (images[j].filename = images[k].filename
            /\ images[j].file_path = images[k].file_path) => j = k

\* C4: process_embeddings never calls the encoder (upload_embeddings) for a
\* row whose embeddings column was non-null when FETCH_EMBEDDINGS started,
\* a stored empty list included.
C4_EmbeddingSkipLaw ==
    \A t \in encCalls : ~photos[t].stored

\* main has returned or died
RunOver ==
    pc \in {"done", "aborted"}

\* C15: a run ends only after every row that lacks an embedding has been
\* attempted in that run -- in particular a row whose request failed in the
\* run before is attempted again by the next run.
C15_AttemptedOncePerRun ==
    RunOver =>
        \A k \in 1..Len(images) :
            ~ListTruthy(RowEmbeddings(images[k])) => k \in encCalls

\* the statuses of the 2xx range
SuccessStatuses ==
    200..299

\* the embedding the endpoint sent for photo t is in the photo and in its row
EmbeddingStored(t) ==
    /\ photos[t].embeddings = photos[t].reply.embeddings
    /\ ~images[t].embeddings.isnull

\* C16: when the endpoint answered a request with a JSON body that holds an
\* embeddings list, process_embeddings stored that embedding if and only if
\* the status was in the 2xx range.
C16_SuccessIs2xx ==
    \A t \in encCalls :
        LET reply == photos[t].reply
        IN  (~reply.none /\ reply.json /\ ListTruthy(reply.embeddings)) =>
                (reply.status_code \in SuccessStatuses <=> EmbeddingStored(t))

\* C30: once INGEST_METADATA has ended (no task raised), every path of the
\* file list that passes the .jpg filter has its row, whatever the order in
\* which the pool ran the SELECT and INSERT steps of the tasks.
C30_IngestComplete ==
    pc \in {"load", "embed", "done"} =>
        \A p \in FileList :
            EndsWith(Lower(p), DotJpg) =>
                \E k \in 1..Len(images) :
                    /\ images[k].filename = Basename(p)
                    /\ images[k].file_path = StoredPath(p)

\* the ingest phase of a first run has ended with the rows of two files of
\* the same name in different directories
C30_Witness ==
    /\ pc = "load"
    /\ run = 1
    /\ \E j, k \in 1..Len(images) :
          /\ images[j].filename = images[k].filename
          /\ images[j].file_path # images[k].file_path

\* process_embeddings task t of the pool has run its update_db
Wrote(t) ==
    /\ t \in encCalls
    /\ ~photos[t].reply.none
    /\ photos[t].reply.json
    /\ photos[t].reply.status_code = StatusOk

\* the rows the UPDATE of task t matches
RowsOf(t) ==
    {k \in 1..Len(images) : images[k].filename = photos[t].filename}

\* C31: no two process_embeddings tasks that the pool of combined_v5.py runs
\* in one FETCH_EMBEDDINGS phase update the same row, also when the table
\* holds several rows with the same filename.
C31_WorkersWriteDisjointRows ==
    (script = "combined_v5" /\ pc = "embed") =>
        \A t1, t2 \in 1..Len(photos) :
            (t1 # t2 /\ Wrote(t1) /\ Wrote(t2)) =>
                RowsOf(t1) \cap RowsOf(t2) = {}

\* a later run of combined_v5.py on a table that holds a non-empty embedding
Restarted ==
    /\ script = "combined_v5"
    /\ run >= 2
    /\ \E k \in 1..Len(images) : ListTruthy(RowEmbeddings(images[k]))

\* C25: a run of combined_v5.py main() started on a store that already holds
\* rows with non-empty embeddings never dies and inserts no row.
C25_Restartable ==
    [][Restarted => (pc' # "aborted" /\ Len(images') = Len(images))]_vars

-----------------------------------------------------------------------------
(* Claims about the rows of the images table *)

\* the rows whose embeddings column the step changes
RowsRewritten ==
    {k \in 1..Len(images) :
        k <= Len(images') /\ images'[k].embeddings # images[k].embeddings}

\* C21: update_db for one photo is a point update: no step of the pipeline
\* changes the embeddings column of more than one row, also when several
\* rows carry the same filename.
C21_PointUpdate ==
    [][Cardinality(RowsRewritten) <= 1]_vars

\* row k is still there after the step, with the four metadata fields it had
RowKept(k) ==
    /\ k <= Len(images')
    /\ images'[k].filename = images[k].filename
    /\ images'[k].file_path = images[k].file_path
    /\ images'[k].file_date = images[k].file_date
    /\ images'[k].file_md5 = images[k].file_md5

\* C24 (checked under SpecRewritten): no step of the pipeline deletes a row or
\* changes the filename, file_path, file_date or file_md5 of an existing row,
\* also in a run that meets files rewritten on disk since their rows were
\* inserted.
C24_RowsInsertOnly ==
    [][\A k \in 1..Len(images) : RowKept(k)]_vars

\* the ingest phase of a second run has gone over a file that was rewritten
\* after its row was inserted, and the embedding phase is going over its row
C24_Witness ==
    /\ run = 2
    /\ pc = "embed"
    /\ \E k \in 1..Len(images) :
          /\ images[k].file_path \in modified
          /\ images[k].file_md5 # FileMd5(images[k].file_path)

\* C27 (checked under Spec): when the Chroma client or collection cannot be
\* opened, the run of generate_embeddings.py has inserted no row and has
\* neither computed nor written an embedding.
C27_IndexCheckedFirst ==
    pc = "index_unavailable" =>
        /\ Len(images) = 0
        /\ encCalls = {}
        /\ \A k \in 1..Len(images) : images[k].embeddings.isnull

\* C26 (checked under Spec): the paths handed to process_image are exactly
\* the paths of the file list whose lower-cased form ends with '.jpg', and
\* every row of the table comes from such a path.
C26_ExtensionFilter ==
    /\ pc = "ingest" =>
          {tasks[t].file_path : t \in 1..Len(tasks)} =
              {p \in FileList : EndsWith(Lower(p), <<".", "j", "p", "g">>)}
    /\ \A k \in 1..Len(images) :
          EndsWith(Lower(images[k].filename), <<".", "j", "p", "g">>)

\* process_image has inserted the row of a path that ends with '.JPG' while a
\* path with another extension is on the file list
C26_Witness ==
    /\ pc = "ingest"
    /\ \E p \in FileList : ~EndsWith(Lower(p), <<".", "j", "p", "g">>)
    /\ \E t \in 1..Len(tasks) :
          /\ tasks[t].st = "done"
          /\ Lower(tasks[t].file_path) # tasks[t].file_path
    /\ Len(images) >= 1

\* C23 (checked under Spec): in the first run, on a table that started empty,
\* a row's embeddings column is non-null only if the encoder has been called
\* for that row in this run: the column stays null until an embedding has
\* been obtained and written for the row.
C23_NullUntilObtained ==
    (script = "generate_embeddings" /\ run = 1) =>
        \A k \in 1..Len(images) :
            ~images[k].embeddings.isnull => k \in encCalls

\* the list of photos has just been decoded from the table: by load_embeddings
\* or load_meme_embeddings of a sync script, or by the row load of main
JustLoaded ==
    IF script \in {"load_embeddings_into_chroma", "generate_chroma_db"}
    THEN pc # "sync_load"
    ELSE pc = "embed" /\ idx = 1 /\ encCalls = {}

\* photo k was decoded from a stored embeddings column: every photo of a sync
\* script, and in main the photos whose column was non-null
ReadBack(k) ==
    IF script \in {"load_embeddings_into_chroma", "generate_chroma_db"}
    THEN TRUE
    ELSE photos[k].stored

\* the filename of photo k (load_embeddings keeps it under 'id')
PhotoName(k) ==
    IF script = "load_embeddings_into_chroma"
    THEN photos[k].id ELSE photos[k].filename

-----------------------------------------------------------------------------
(* Claims about the sync scripts (checked under SpecSync) *)

\* C5: collection.add is never called with an id that the collection holds
\* at the moment of the call: not when two rows carry the same filename, not
\* on a second run of the script, not from concurrent workers.
C5_IndexSkipLaw ==
    \A c \in addCalls : ~c.present

\* C28: an exception of collection.add for one id does not end the sync
\* script: the script never dies in its loop, so the rows after the failed id
\* are still offered to the index.
C28_UpsertFailureConfined ==
    pc # "sync_aborted"

-----------------------------------------------------------------------------
(* Claims about combined_v2.py (checked under SpecV2) *)

-----------------------------------------------------------------------------
(* Claims about start_web.py (checked under SpecWeb) *)

\* the ids of the list serve_specific_image hands to the template
Rendered ==
    {web.images[i] : i \in 1..Len(web.images)}

\* C32: the list rendered for an image never contains the image's own id,
\* and never lacks the first query result when that is another image.
C32_OwnIdExcluded ==
    web.pc = "rendered" =>
        /\ web.filename \notin Rendered
        /\ web.results[1] # web.filename => web.results[1] \in Rendered


-----------------------------------------------------------------------------
(* generate_embeddings.py under the forms IMAGE_DIRECTORY can be given in:  *)
(* os.walk(root) yields os.path.join(root, file), which is the same path    *)
(* for 'img' and for 'img/'.                                                *)

RootForms == {Root, RootSlash}

RootedPaths == {PathA, PathSubA, PathImg}

InitRoots ==
    /\ script = "generate_embeddings"
    /\ env \in {[IMAGE_DIRECTORY |-> r] : r \in RootForms}
    /\ dir \in {{p} : p \in RootedPaths}
    /\ cacheFile = NoFile
    /\ readable = TRUE
    /\ FreshRun

SpecRoots == InitRoots /\ [][Next]_vars

-----------------------------------------------------------------------------
(* Claims about the stored relative path (checked under SpecRoots) *)

\* the discovered paths for which process_image stored the row of photo k
DiscoveredFor(k) ==
    {p \in dir : /\ IsJpg(p)
                 /\ Basename(p) = photos[k].filename
                 /\ StoredPath(p) = photos[k].file_path}

\* C33: whatever form the root string has, the path process_embeddings
\* rebuilds from a stored file_path for its encoder call is the discovered
\* path the row was stored for
C33_RelativePathRoundTrip ==
    (script = "generate_embeddings" /\ pc = "embed") =>
        \A k \in encCalls :
            \A p \in DiscoveredFor(k) :
                Join(SOURCE_IMAGE_DIRECTORY, Slice1(photos[k].file_path)) = p


-----------------------------------------------------------------------------
(* load_embeddings_into_chroma.py run on its own: on whatever table and     *)
(* whatever collection it finds.                                            *)

\* an id the collection holds for a file that has no row in the table
StaleId == <<"x", ".", "j", "p", "g">>

\* the row process_image stores for a path, with or without its embedding
RowFor(p, embedded) ==
    [filename |-> Basename(p),
     file_path |-> Remove(p, Root),
     file_date |-> FileDate(p),
     file_md5 |-> FileMd5(p),
     embeddings |-> IF embedded THEN Blob(Packb(ImageEmbedding(p))) ELSE Null]

\* the tables considered: at most MaxFiles rows, each for another .jpg path
Tables ==
    UNION {{t \in [1..n -> {RowFor(p, e) : p \in {q \in Universe : IsJpg(q)},
                                            e \in BOOLEAN}] :
               \A i, j \in 1..n : i # j => t[i].file_md5 # t[j].file_md5} :
           n \in 0..MaxFiles}

\* the collections considered
Collections ==
    SUBSET ({Basename(p) : p \in {q \in Universe : IsJpg(q)}} \cup {StaleId})

InitStandalone ==
    /\ script = "load_embeddings_into_chroma"
    /\ dir = {}
    /\ cacheFile = NoFile
    /\ readable = TRUE
    /\ hc = IdleFrame
    /\ call = [dirAtCall |-> {}, cacheAtCall |-> NoFile, walked |-> FALSE]
    /\ calls = 0
    /\ pc = "sync_load"
    /\ run = 1
    /\ modified = {}
    /\ images \in Tables
    /\ collection \in Collections
    /\ tasks = <<>>
    /\ photos = <<>>
    /\ idx = 1
    /\ items = {}
    /\ faults = 0
    /\ encCalls = {}
    /\ addCalls = {}
    /\ snap = <<>>
    /\ active = {}
    /\ unfinished = [image |-> 0, embed |-> 0]
    /\ sig = [delivered |-> FALSE, queued |-> {}]
    /\ connection = [st |-> "open", flushed |-> FALSE]
    /\ txn = [commit_counter |-> 0, uncommitted |-> 0]
    /\ env = [IMAGE_DIRECTORY |-> Root]
    /\ web = NoPage

NextStandalone ==
    \/ LS_Load \/ LS_Step \/ LS_End \/ S_Again

SpecStandalone == InitStandalone /\ [][NextStandalone]_vars

-----------------------------------------------------------------------------
(* Claims about load_embeddings_into_chroma.py run on its own *)

\* C34: when load_embeddings_into_chroma.py has finished, the filename of
\* every row with a non-null embedding is an id of the collection, whatever
\* the collection held before the run
C34_StandaloneSyncComplete ==
    (script = "load_embeddings_into_chroma" /\ pc = "sync_done") =>
        \A k \in 1..Len(images) :
            ~images[k].embeddings.isnull => images[k].filename \in collection


-----------------------------------------------------------------------------
(* generate_embeddings_chroma.py: the loop that opens every photo and adds  *)
(* the opened images to the collection in batches.  A photo is its number   *)
(* in the list; tasks is images['ids'], idx - 1 is i.                       *)

batch_size == 20

\* the ids of a batch
BatchIds(ids) == {ids[k] : k \in 1..Len(ids)}

\* Image.open(image_path) returns, or raises
OpenOutcomes == {TRUE} \cup (IF faults < MaxFaults THEN {FALSE} ELSE {})

\* one iteration: open the image (a failure is logged), append the id, append
\* photo['image_array'] -- a KeyError when the open failed, which nothing
\* catches -- count, and collection.add when i is a multiple of batch_size
GEC_Step ==
    /\ script = "generate_embeddings_chroma"
    /\ pc = "gec_loop"
    /\ idx <= Len(photos)
    /\ \E opened \in OpenOutcomes :
          LET ids == Append(tasks, photos[idx].filename)
              i == idx
          IN  IF ~opened
              THEN /\ faults' = faults + 1
                   /\ tasks' = ids
                   /\ pc' = "gec_died"
                   /\ UNCHANGED <<idx, collection, addCalls>>
              ELSE /\ idx' = idx + 1
                   /\ IF (i % batch_size) = 0
                      THEN /\ collection' = collection \cup BatchIds(ids)
                           /\ addCalls' = addCalls \cup {[ids |-> ids]}
                           /\ tasks' = <<>>
                      ELSE /\ tasks' = ids
                           /\ UNCHANGED <<collection, addCalls>>
                   /\ UNCHANGED <<faults, pc>>
    /\ UNCHANGED <<sysVars, script, dir, cacheVars, run, images, photos, items,
                   encCalls, snap>>

\* the list is exhausted: conn.close()
GEC_End ==
    /\ script = "generate_embeddings_chroma"
    /\ pc = "gec_loop"
    /\ idx > Len(photos)
    /\ pc' = "gec_done"
    /\ connection' = [connection EXCEPT !.st = "closed"]
    /\ UNCHANGED <<readable, modified, txn, web, env, active, unfinished, sig,
                   script, dir, cacheVars, run, pipeVars>>

InitChroma ==
    /\ script = "generate_embeddings_chroma"
    /\ dir = {}
    /\ cacheFile = NoFile
    /\ readable = TRUE
    /\ hc = IdleFrame
    /\ call = [dirAtCall |-> {}, cacheAtCall |-> NoFile, walked |-> FALSE]
    /\ calls = 0
    /\ pc = "gec_loop"
    /\ run = 1
    /\ images = <<>>
    /\ collection = {}
    /\ tasks = <<>>
    /\ photos \in {[k \in 1..n |-> [filename |-> k, file_path |-> k]] :
                      n \in 0..MaxPhotos}
    /\ idx = 1
    /\ items = {}
    /\ faults = 0
    /\ encCalls = {}
    /\ addCalls = {}
    /\ snap = <<>>
    /\ active = {}
    /\ unfinished = [image |-> 0, embed |-> 0]
    /\ sig = [delivered |-> FALSE, queued |-> {}]
    /\ connection = [st |-> "open", flushed |-> FALSE]
    /\ modified = {}
    /\ txn = [commit_counter |-> 0, uncommitted |-> 0]
    /\ env = [IMAGE_DIRECTORY |-> Root]
    /\ web = NoPage

NextChroma ==
    \/ GEC_Step
    \/ GEC_End

SpecChroma == InitChroma /\ [][NextChroma]_vars

-----------------------------------------------------------------------------
(* Claims about generate_embeddings_chroma.py (checked under SpecChroma) *)

\* the photos handed to collection.add in some batch
Batched == UNION {BatchIds(c.ids) : c \in addCalls}

\* C35: when generate_embeddings_chroma.py has ended, every photo loaded from
\* the database was passed to collection.add in some batch, whatever the
\* number of photos and also when an image file failed to open
C35_BatchesCoverEveryRow ==
    (script = "generate_embeddings_chroma" /\ pc \in {"gec_done", "gec_died"}) =>
        \A k \in 1..Len(photos) : photos[k].filename \in Batched


-----------------------------------------------------------------------------
(* combined_v1.py: one sequential loop that inserts a row once the          *)
(* embedding server has answered.  tasks is cached_files with what the loop *)
(* did with each entry; idx is the position of the loop.                    *)

\* what upload_and_get_embeddings returns: the list of the reply, the default
\* [] of .get('embeddings', []), or None after an exception
UploadOutcomes ==
    {"ok"} \cup (IF faults < MaxFaults THEN {"no_embeddings", "raises"} ELSE {})

UploadResult(outcome, image_path) ==
    CASE outcome = "ok" -> [none |-> FALSE, value |-> ImageEmbedding(image_path)]
      [] outcome = "no_embeddings" -> [none |-> FALSE, value |-> <<>>]
      [] OTHER -> [none |-> TRUE, value |-> <<>>]

\* a test that lets every value but None pass
IsNotNone(embeddings) == ~embeddings.none

\* if embeddings:
Truthy(embeddings) == ~embeddings.none /\ Len(embeddings.value) > 0

\* SELECT id FROM images WHERE filename=? AND file_md5=?
SelectByNameAndMd5(file_name, file_md5) ==
    \E k \in 1..Len(images) :
        images[k].filename = file_name /\ images[k].file_md5 = file_md5

\* generate_or_load_file_cache: load the pickled list, or walk and pickle it.
\* An exception of pickle.load reaches the except clause of main.
V1_Cache ==
    /\ script = "combined_v1"
    /\ pc = "hydrate"
    /\ IF cacheFile.exists
       THEN /\ IF Decodable(cacheFile.bytes)
               THEN /\ pc' = "v1_ingest"
                    /\ tasks' = [k \in 1..Len(Unpackb(cacheFile.bytes)) |->
                                    [file_path |-> Unpackb(cacheFile.bytes)[k],
                                     st |-> "pending"]]
               ELSE /\ pc' = "aborted"
                    /\ tasks' = <<>>
            /\ UNCHANGED cacheFile
       ELSE \E order \in file_generator(IF readable THEN dir ELSE {}) :
               /\ cacheFile' = [exists |-> TRUE, bytes |-> Packb(order)]
               /\ tasks' = [k \in 1..Len(order) |->
                               [file_path |-> order[k], st |-> "pending"]]
               /\ pc' = "v1_ingest"
    /\ idx' = 1
    /\ UNCHANGED <<sysVars, script, dir, hc, call, calls, run, storeVars, photos,
                   items, histVars>>

\* one iteration of process_files_and_update_db
V1_Step ==
    /\ script = "combined_v1"
    /\ pc = "v1_ingest"
    /\ idx <= Len(tasks)
    /\ LET file_path == tasks[idx].file_path
           file_name == Basename(file_path)
       IN  IF ~IsJpg(file_path)
           THEN /\ tasks' = [tasks EXCEPT ![idx].st = "other"]
                /\ idx' = idx + 1
                /\ UNCHANGED <<images, encCalls, faults, pc>>
           ELSE IF file_path \notin dir
           THEN /\ tasks' = [tasks EXCEPT ![idx].st = "raised"]
                /\ pc' = "aborted"
                /\ UNCHANGED <<images, encCalls, faults, idx>>
           ELSE IF SelectByNameAndMd5(file_name, FileMd5(file_path))
           THEN /\ tasks' = [tasks EXCEPT ![idx].st = "known"]
                /\ idx' = idx + 1
                /\ UNCHANGED <<images, encCalls, faults, pc>>
           ELSE \E outcome \in UploadOutcomes :
                   LET embeddings == UploadResult(outcome, file_path)
                   IN  /\ encCalls' = encCalls \cup {idx}
                       /\ faults' = IF outcome = "ok" THEN faults ELSE faults + 1
                       /\ IF Truthy(embeddings)
                          THEN /\ images' = Append(images,
                                    [filename |-> file_name,
                                     file_path |-> file_path,
                                     file_date |-> FileDate(file_path),
                                     file_md5 |-> FileMd5(file_path),
                                     embeddings |->
                                         Blob(JsonDumps(embeddings.value))])
                               /\ tasks' = [tasks EXCEPT ![idx].st = "inserted"]
                          ELSE /\ images' = images
                               /\ tasks' = [tasks EXCEPT ![idx].st = "failed"]
                       /\ idx' = idx + 1
                       /\ pc' = pc
    /\ UNCHANGED <<sysVars, script, dir, cacheVars, run, collection, photos, items,
                   addCalls, snap>>

\* the list is exhausted: main logs that all operations completed
V1_End ==
    /\ script = "combined_v1"
    /\ pc = "v1_ingest"
    /\ idx > Len(tasks)
    /\ pc' = "done"
    /\ UNCHANGED <<sysVars, script, dir, cacheVars, run, pipeVars>>

InitV1 ==
    /\ script = "combined_v1"
    /\ dir \in Dirs
    /\ cacheFile = NoFile
    /\ readable = TRUE
    /\ Fresh

NextV1 ==
    \/ V1_Cache \/ V1_Step \/ V1_End
    \/ NextRun \/ TouchFile \/ RemoveFile

SpecV1 == InitV1 /\ [][NextV1]_vars

-----------------------------------------------------------------------------
(* Claims about combined_v1.py (checked under SpecV1) *)

\* the table has a row for the file of entry t as the file is now
HasRow(t) ==
    \E k \in 1..Len(images) :
        /\ images[k].file_path = tasks[t].file_path
        /\ images[k].file_md5 = FileMd5(tasks[t].file_path)

-----------------------------------------------------------------------------
(* generate_db.py: the first run walks the directory, pickles a dict from   *)
(* file name to path and exits; a later run loads the dict and iterates     *)
(* over it.  A dict is the sequence of its items in insertion order; tasks  *)
(* is cached_files.  Relative paths resolve against the directory the       *)
(* script is started in, the parent of the image directory.                 *)

\* cached_files[file] = file_path on a dict: a key that is present keeps its
\* place and takes the new value
RECURSIVE DictOf(_)
DictOf(order) ==
    IF Len(order) = 0 THEN <<>>
    ELSE LET before == DictOf(SubSeq(order, 1, Len(order) - 1))
             file_path == order[Len(order)]
             file == Basename(file_path)
         IN  IF \E k \in 1..Len(before) : before[k].key = file
             THEN [k \in 1..Len(before) |->
                      IF before[k].key = file
                      THEN [key |-> file, value |-> file_path]
                      ELSE before[k]]
             ELSE Append(before, [key |-> file, value |-> file_path])

\* get_file_metadata: (file_date, b"") or, when getmtime raises, (None, None)
get_file_metadata(file_path) ==
    IF file_path \in dir
    THEN [file_date |-> FileDate(file_path), embeddings |-> Blob(<<>>),
          none |-> FALSE]
    ELSE [file_date |-> [ctime |-> 0], embeddings |-> Null, none |-> TRUE]

\* the cache file exists: pickle.load, which nothing guards; else walk, dump
\* and exit()
GD_Cache ==
    /\ script = "generate_db"
    /\ pc = "hydrate"
    /\ IF cacheFile.exists
       THEN /\ IF Decodable(cacheFile.bytes)
               THEN /\ pc' = "gd_ingest"
                    /\ tasks' = Unpackb(cacheFile.bytes)
               ELSE /\ pc' = "aborted"
                    /\ tasks' = <<>>
            /\ UNCHANGED cacheFile
       ELSE \E order \in file_generator(IF readable THEN dir ELSE {}) :
               /\ cacheFile' = [exists |-> TRUE, bytes |-> Packb(DictOf(order))]
               /\ tasks' = DictOf(order)
               /\ pc' = "exited"
    /\ idx' = 1
    /\ UNCHANGED <<sysVars, script, dir, hc, call, calls, run, storeVars, photos,
                   items, histVars>>

\* one iteration of `for file in cached_files`: the key is used as file name
\* and as file path
GD_Step ==
    /\ script = "generate_db"
    /\ pc = "gd_ingest"
    /\ idx <= Len(tasks)
    /\ LET file == tasks[idx].key
           file_path == file
           metadata == get_file_metadata(file_path)
       IN  images' =
              IF /\ IsJpg(file)
                 /\ ~metadata.none
                 /\ ~\E k \in 1..Len(images) :
                        /\ images[k].filename = file
                        /\ images[k].file_path = file_path
              THEN Append(images,
                      [filename |-> file,
                       file_path |-> file_path,
                       file_date |-> metadata.file_date,
                       file_md5 |-> FileMd5(file_path),
                       embeddings |-> metadata.embeddings])
              ELSE images
    /\ idx' = idx + 1
    /\ UNCHANGED <<sysVars, script, dir, cacheVars, pc, run, collection, tasks,
                   photos, items, histVars>>

\* the dict is exhausted: conn.commit(); conn.close()
GD_End ==
    /\ script = "generate_db"
    /\ pc = "gd_ingest"
    /\ idx > Len(tasks)
    /\ pc' = "done"
    /\ UNCHANGED <<sysVars, script, dir, cacheVars, run, pipeVars>>

InitGenDb ==
    /\ script = "generate_db"
    /\ dir \in Dirs
    /\ cacheFile = NoFile
    /\ readable = TRUE
    /\ Fresh

NextGenDb ==
    \/ GD_Cache \/ GD_Step \/ GD_End
    \/ NextRun \/ TouchFile

SpecGenDb == InitGenDb /\ [][NextGenDb]_vars

-----------------------------------------------------------------------------
(* Claims about generate_db.py (checked under SpecGenDb) *)

\* C37: after a run of generate_db.py that built the cache and a second run
\* that loaded it and went through it, every .jpg file found under the image
\* directory has a row in the images table
C37_IngestsWhatItDiscovered ==
    (script = "generate_db" /\ run = 2 /\ pc = "done") =>
        \A p \in dir :
            IsJpg(p) => \E k \in 1..Len(images) : images[k].filename = Basename(p)

====
